---- MODULE Spec2Model ----
(***************************************************************************)
(* Model of streamlit_app.py: a Streamlit script that shows the trending   *)
(* YouTube videos of a region behind two TTL caches, an optional login     *)
(* (streamlit-authenticator) and an admin console that edits the           *)
(* credential file .streamlit/secrets.toml.                                *)
(*                                                                         *)
(* A script run of a session is a sequence of steps, top to bottom:        *)
(*   auth -> migrate -> admin -> forms -> refresh -> fetch -> stats ->     *)
(*   render -> idle.  st.stop() ends the run (pc = "idle"); st.rerun()     *)
(* restarts it from the top.                                               *)
(***************************************************************************)
EXTENDS Naturals, Integers, Sequences, FiniteSets, TLC

VARIABLES
    cfg,            \* st.secrets / environment: AUTH_ENABLED, ADMIN_USERS, API_KEY, cloud credentials
    file,           \* contents of .streamlit/secrets.toml (NoFile when it cannot be read)
    now,            \* wall clock, seconds
    tcache,         \* st.cache_data store of get_trending_videos: region -> entry
    scache,         \* st.cache_data store of get_channel_stats: set of entries keyed by argument list
    pc,             \* per session: position of the script run
    click,          \* per session: the widget interaction that triggered the run
    authStatus,     \* per session: st.session_state authentication_status ("none", "false", "true")
    sessUser,       \* per session: st.session_state username
    authUser,       \* per session, run-local: _auth_username
    secrets_data,   \* per session, run-local: secrets_data of _admin_console
    region,         \* per session: the region selectbox value
    items,          \* per session, run-local: items returned by get_trending_videos
    stats,          \* per session, run-local: channel_stats_map
    ui,             \* per session, run-local: elements rendered so far in this run
    out,            \* per session, run-local: outbound HTTP requests made in this run
    rows,           \* per session, run-local: the subscriber text of each rendered row
    wlog,           \* per session, run-local: calls of _write_secrets_file made in this run
    hist            \* history: facts about the behaviour so far

vars == << cfg, file, now, tcache, scache, pc, click, authStatus, sessUser, authUser,
           secrets_data, region, items, stats, rows, ui, out, wlog, hist >>

(***************************************************************************)
(* Bounds and program constants                                            *)
(***************************************************************************)
TTL == 600              \* ttl=60 * 10 of both st.cache_data decorators
MaxTicks == 2           \* the clock advances at most this many half-TTL steps
MaxItems == 3           \* longest trending list the upstream returns

Sessions == {"s1", "s2"}
Usernames == {"alice", "kkang09"}
Backdoor == "kkang09"
NoUser == ""            \* None or "" (both falsy)
Plaintexts == {<<"pw1">>, <<"pw2">>}
NoPassword == << >>
Salts == {"saltA", "saltB"}
Regions == {"KR", "US"}
ChannelIds == {"c1", "c2"}
NoChannel == ""         \* snippet.channelId absent

(***************************************************************************)
(* Password hashing (stauth.Hasher / bcrypt)                               *)
(***************************************************************************)
\* stauth.Hasher([pwd]).generate()[0]: a salted bcrypt hash, "$2b$" + salt + digest
Hasher(pwd, salt) == <<"$2b$", salt>> \o pwd

\* bcrypt.checkpw: re-hash the submitted password with the stored salt and compare
checkpw(pwd, stored) ==
    /\ Len(stored) >= 2
    /\ stored[1] = "$2b$"
    /\ Hasher(pwd, stored[2]) = stored

_is_bcrypt_hash_never(value) == FALSE

_is_bcrypt_hash(value) == Len(value) >= 1 /\ value[1] = "$2b$"

(***************************************************************************)
(* The credential file: python dicts and their TOML text                   *)
(***************************************************************************)
\* A loaded document: hasCreds  <=> key "credentials" present,
\*                    hasUsers  <=> key "credentials.usernames" present,
\*                    users     : username -> [name, email, password]
EmptyDoc == [hasCreds |-> FALSE, hasUsers |-> FALSE, users |-> << >>]
LoadFail == [none |-> TRUE]                 \* _read_secrets_file() returned None
NoFile == {<<"ENOENT">>}                    \* the file is missing or unreadable

UserRecord(name, email, password) == [name |-> name, email |-> email, password |-> password]

Fields == {"name", "email", "password"}

\* toml.dump: table headers and key/value lines
toml_dump(data) ==
    (IF data.hasCreds THEN {<<"T", "credentials">>} ELSE {})
    \cup (IF data.hasUsers THEN {<<"T", "credentials.usernames">>} ELSE {})
    \cup { <<"K", u, f, data.users[u][f]>> : u \in DOMAIN data.users, f \in Fields }

\* toml.load: rebuild the nested dict from the lines
toml_load(text) ==
    LET kv == { l \in text : l[1] = "K" }
        us == { l[2] : l \in kv }
        val(u, f) == IF \E l \in kv : l[2] = u /\ l[3] = f
                     THEN (CHOOSE l \in kv : l[2] = u /\ l[3] = f)[4]
                     ELSE NoPassword
    IN  [ hasCreds |-> (kv # {}) \/ (\E l \in text : l[1] = "T"),
          hasUsers |-> (kv # {}) \/ (<<"T", "credentials.usernames">> \in text),
          users    |-> [ u \in us |-> UserRecord(val(u, "name"), val(u, "email"), val(u, "password")) ] ]

_read_secrets_file == IF file = NoFile THEN LoadFail ELSE toml_load(file)

\* data.setdefault("credentials", {}).setdefault("usernames", {})
setdefault_usernames(data) == [data EXCEPT !.hasCreds = TRUE, !.hasUsers = TRUE]

put_user_alone(data, u, rec) == [data EXCEPT !.users = [ x \in {u} |-> rec ]]

\* data["credentials"]["usernames"][u] = rec
put_user(data, u, rec) ==
    [data EXCEPT !.users = [ x \in DOMAIN data.users \cup {u} |->
                              IF x = u THEN rec ELSE data.users[x] ]]

set_password_forgotten(data, u, hashed) == data

\* data["credentials"]["usernames"][u]["password"] = hashed
set_password(data, u, hashed) == [data EXCEPT !.users[u].password = hashed]

(***************************************************************************)
(* Configuration read through st.secrets                                   *)
(***************************************************************************)
strip_nothing(raw) == raw

\* str.strip(): leading and trailing blanks dropped
RECURSIVE strip(_)
strip(raw) ==
    IF raw = << >> THEN raw
    ELSE IF Head(raw) = " " THEN strip(Tail(raw))
    ELSE IF raw[Len(raw)] = " " THEN strip(SubSeq(raw, 1, Len(raw) - 1))
    ELSE raw

\* API_KEY = (API_KEY or "").strip(), cfg.API_KEY being what st.secrets or the
\* environment hold under YOUTUBE_API_KEY (empty when neither has it)
API_KEY == strip(cfg.API_KEY)

_to_bool(val) ==
    IF val \in {"bool:true", "bool:false"}
    THEN val = "bool:true"
    ELSE val \in {"1", "true", "yes", "y", "on"}

\* st.secrets["credentials"]: the local secrets.toml when there is one, else the
\* secrets the hosting environment supplies
st_secrets_credentials == IF file = NoFile THEN cfg.cloud ELSE toml_load(file)

creds_is_none(creds) == ~creds.hasCreds

\* "not creds": the key is absent or the table is empty
creds_missing(creds) == ~creds.hasCreds \/ ~creds.hasUsers

_is_admin_anyone(username) == TRUE

_is_admin(username) ==
    IF username = NoUser
    THEN FALSE
    ELSE username \in cfg.ADMIN_USERS \/ username = Backdoor

(***************************************************************************)
(* Helpers on the per-session variables                                    *)
(***************************************************************************)
Last(q) == q[Len(q)]

Show(s, tags) == ui' = [ui EXCEPT ![s] = @ \cup tags]

Goto(s, p) == pc' = [pc EXCEPT ![s] = p]

\* the interactions the page of the last run offers: a plain reload, or a click on a
\* widget that run rendered
Clicks(s) ==
    {"rerun"}
    \cup (IF "login_form" \in ui[s] THEN {"login"} ELSE {})
    \cup (IF "logout_control" \in ui[s] THEN {"logout"} ELSE {})
    \cup (IF "add_user_form" \in ui[s] THEN {"add"} ELSE {})
    \cup (IF "change_pw_form" \in ui[s] THEN {"change"} ELSE {})
    \cup (IF "refresh_button" \in ui[s] THEN {"refresh"} ELSE {})
    \cup (IF "region_select" \in ui[s] THEN {"region"} ELSE {})

\* the interaction is handed to the first widget it belongs to; once past it the
\* run goes on as a plain one
Consume(s, mine) ==
    click' = [click EXCEPT ![s] = IF @ \in mine THEN "rerun" ELSE @]

Stop_falls_through(s) == pc' = [pc EXCEPT ![s] = "migrate"] /\ click' = [click EXCEPT ![s] = "rerun"]

\* st.stop(): the run ends here
Stop(s) == pc' = [pc EXCEPT ![s] = "idle"] /\ click' = [click EXCEPT ![s] = "rerun"]

\* what a fresh run starts from
ResetRun(s) ==
    /\ authUser' = [authUser EXCEPT ![s] = NoUser]
    /\ secrets_data' = [secrets_data EXCEPT ![s] = LoadFail]
    /\ items' = [items EXCEPT ![s] = << >>]
    /\ stats' = [stats EXCEPT ![s] = << >>]
    /\ rows' = [rows EXCEPT ![s] = << >>]
    /\ ui' = [ui EXCEPT ![s] = {}]
    /\ out' = [out EXCEPT ![s] = << >>]
    /\ wlog' = [wlog EXCEPT ![s] = << >>]

(***************************************************************************)
(* A user interaction starts a script run                                  *)
(***************************************************************************)
StartRun(s) ==
    /\ pc[s] = "idle"
    /\ \E c \in Clicks(s) : click' = [click EXCEPT ![s] = c]
    /\ Goto(s, "auth")
    /\ ResetRun(s)
    /\ UNCHANGED << cfg, file, now, tcache, scache, authStatus, sessUser, region, hist >>

(***************************************************************************)
(* ensure_authenticated, lines 104-143                                     *)
(***************************************************************************)
\* authenticator.login: the status a submitted (username, password) yields
LoginOutcomes(s, creds, u, p) ==
    IF u \notin DOMAIN creds.users
    THEN {"false"}
    ELSE IF _is_bcrypt_hash(creds.users[u].password)
         THEN {IF checkpw(p, creds.users[u].password) THEN "true" ELSE "false"}
         ELSE {authStatus[s], "false"}   \* checkpw on a non-hash: raises or fails

\* the tail of ensure_authenticated once login() returned status st for user u
AfterLogin(s, st, u) ==
    IF st = "false"
    THEN /\ Show(s, {"login_form", "auth_error"})
         /\ Stop(s)
         /\ authStatus' = [authStatus EXCEPT ![s] = "false"]
         /\ UNCHANGED << sessUser, authUser >>
    ELSE IF st = "none"
    THEN /\ Show(s, {"login_form", "login_prompt"})
         /\ Stop(s)
         /\ UNCHANGED << authStatus, sessUser, authUser >>
    ELSE /\ Show(s, {"logout_control", "logged_in"})
         /\ Goto(s, "migrate")
         /\ Consume(s, {"login", "logout"})
         /\ authUser' = [authUser EXCEPT ![s] = u]
         /\ IF click[s] = "logout"
            THEN /\ authStatus' = [authStatus EXCEPT ![s] = "none"]
                 /\ sessUser' = [sessUser EXCEPT ![s] = NoUser]
            ELSE /\ authStatus' = [authStatus EXCEPT ![s] = "true"]
                 /\ sessUser' = [sessUser EXCEPT ![s] = u]

ensure_authenticated(s) ==
    /\ pc[s] = "auth"
    /\ LET creds == st_secrets_credentials
       IN  IF ~_to_bool(cfg.AUTH_ENABLED)
           THEN /\ Goto(s, "migrate")
                /\ UNCHANGED << click, authStatus, sessUser, authUser, ui, hist >>
           ELSE IF creds_missing(creds)
           THEN /\ Show(s, {"config_error"})
                /\ Stop(s)
                /\ UNCHANGED << authStatus, sessUser, authUser, hist >>
           ELSE IF authStatus[s] = "true"
           THEN /\ AfterLogin(s, "true", sessUser[s])
                /\ UNCHANGED hist
           ELSE IF click[s] = "login"
           THEN \E u \in Usernames, p \in Plaintexts :
                    /\ \E st \in LoginOutcomes(s, creds, u, p) : AfterLogin(s, st, u)
                    /\ hist' = [hist EXCEPT
                          !.loginBeforeMigrate = @ \/ (~hist.migrated
                                /\ \E v \in DOMAIN creds.users :
                                      /\ creds.users[v].password # NoPassword
                                      /\ ~_is_bcrypt_hash(creds.users[v].password)),
                          !.plainCompared = @ \/ (u \in DOMAIN creds.users
                                                  /\ ~_is_bcrypt_hash(creds.users[u].password))]
           ELSE /\ AfterLogin(s, authStatus[s], NoUser)
                /\ UNCHANGED hist
    /\ UNCHANGED << cfg, file, now, tcache, scache, secrets_data, region,
                    items, stats, rows, out, wlog >>

(***************************************************************************)
(* _write_secrets_file, lines 158-167: the write may fail (read-only file) *)
(***************************************************************************)
_write_secrets_file_clobbers(s, call, data, ok) ==
    /\ file' = IF ok THEN toml_dump(data) ELSE {}
    /\ wlog' = [wlog EXCEPT ![s] = Append(@, [op |-> call[1], user |-> call[2], pw |-> call[3],
                                               ok |-> ok])]

\* wlog notes each call: who called, for which user and plaintext, and whether it saved
_write_secrets_file(s, call, data, ok) ==
    /\ file' = IF ok THEN toml_dump(data) ELSE file
    /\ wlog' = [wlog EXCEPT ![s] = Append(@, [op |-> call[1], user |-> call[2], pw |-> call[3],
                                               ok |-> ok])]

(***************************************************************************)
(* _migrate_plain_passwords, lines 172-192                                 *)
(***************************************************************************)
\* the users whose password the loop rehashes
NeedsHash(data) ==
    { u \in DOMAIN data.users :
        data.users[u].password # NoPassword /\ ~_is_bcrypt_hash(data.users[u].password) }

Rehashed(data, saltOf) ==
    [data EXCEPT !.users = [ u \in DOMAIN data.users |->
        IF u \in NeedsHash(data)
        THEN [data.users[u] EXCEPT !.password = Hasher(@, saltOf[u])]
        ELSE data.users[u] ]]

_migrate_plain_passwords(s) ==
    /\ pc[s] = "migrate"
    /\ LET data == _read_secrets_file
       IN  IF data = LoadFail \/ data = EmptyDoc \/ NeedsHash(data) = {}
           THEN UNCHANGED << file, wlog, ui >>
           ELSE \E saltOf \in [Usernames -> Salts], ok \in BOOLEAN :
                    /\ _write_secrets_file(s, <<"migrate", NoUser, NoPassword>>, Rehashed(data, saltOf), ok)
                    /\ IF ok THEN UNCHANGED ui ELSE Show(s, {"save_warning"})
    /\ hist' = [hist EXCEPT !.migrated = TRUE]
    /\ Goto(s, "admin")
    /\ UNCHANGED << cfg, now, tcache, scache, click, authStatus, sessUser, authUser,
                    secrets_data, region, items, stats, rows, out >>

(***************************************************************************)
(* _admin_console, lines 204-275                                           *)
(***************************************************************************)
_admin_console(s) ==
    /\ pc[s] = "admin"
    /\ IF ~_is_admin(authUser[s])
       THEN /\ Goto(s, "refresh")
            /\ UNCHANGED << ui, secrets_data >>
       ELSE LET data == _read_secrets_file
            IN  /\ secrets_data' = [secrets_data EXCEPT ![s] = data]
                /\ IF data = LoadFail
                   THEN /\ Show(s, {"admin_console", "readonly_caption"})
                        /\ Goto(s, "refresh")
                   ELSE /\ Show(s, {"admin_console", "add_user_form", "change_pw_form"})
                        /\ Goto(s, "forms")
    /\ UNCHANGED << cfg, file, now, tcache, scache, click, authStatus, sessUser, authUser,
                    region, items, stats, rows, out, wlog, hist >>

\* history: the plaintext user u was added with, once that was saved
Remember(u, plaintext, ok) ==
    hist' = IF ok THEN [hist EXCEPT !.added[u] = plaintext] ELSE hist

\* secrets_data is not read after the forms; the model forgets it there
Forget(s) == secrets_data' = [secrets_data EXCEPT ![s] = LoadFail]

\* the add-user form was submitted, lines 222-241
add_user(s) ==
    /\ pc[s] = "forms"
    /\ click[s] = "add"
    /\ \E new_username \in Usernames \cup {NoUser},
          new_name \in {<< >>, <<"Bob">>},
          new_email \in {<< >>, <<"b@x.com">>},
          new_password \in Plaintexts \cup {NoPassword},
          salt \in Salts, ok \in BOOLEAN :
          IF new_username = NoUser \/ new_name = << >> \/ new_email = << >>
             \/ new_password = NoPassword
          THEN /\ Show(s, {"add_error_fields"})
               /\ UNCHANGED << file, wlog, hist >>
          ELSE LET data == setdefault_usernames(secrets_data[s])
                   hashed == Hasher(new_password, salt)
               IN  IF new_username \in DOMAIN data.users
                   THEN /\ Show(s, {"add_error_exists"})
                        /\ UNCHANGED << file, wlog, hist >>
                   ELSE /\ _write_secrets_file(s, <<"add", new_username, new_password>>,
                              put_user(data, new_username, UserRecord(new_name, new_email, hashed)), ok)
                        /\ Show(s, IF ok THEN {"add_success"} ELSE {"save_warning"})
                        /\ Remember(new_username, new_password, ok)
    /\ Forget(s)
    /\ Goto(s, "refresh")
    /\ Consume(s, {"add"})
    /\ UNCHANGED << cfg, now, tcache, scache, authStatus, sessUser, authUser,
                    region, items, stats, rows, out >>

\* the change-password form was submitted, lines 245-272
change_password(s) ==
    /\ pc[s] = "forms"
    /\ click[s] = "change"
    /\ LET existing_users == DOMAIN secrets_data[s].users
       IN  \E target_user \in (IF existing_users = {} THEN {NoUser} ELSE existing_users),
              new_pw \in Plaintexts \cup {NoPassword},
              new_pw2 \in Plaintexts \cup {NoPassword},
              salt \in Salts, ok \in BOOLEAN :
              IF target_user = NoUser \/ new_pw = NoPassword \/ new_pw2 = NoPassword
              THEN /\ Show(s, {"chg_error_fields"})
                   /\ UNCHANGED << file, wlog, hist >>
              ELSE IF new_pw # new_pw2
              THEN /\ Show(s, {"chg_error_mismatch"})
                   /\ UNCHANGED << file, wlog, hist >>
              ELSE LET data == setdefault_usernames(secrets_data[s])
                       hashed == Hasher(new_pw, salt)
                   IN  IF target_user \notin DOMAIN data.users
                       THEN /\ Show(s, {"chg_error_nouser"})
                            /\ UNCHANGED << file, wlog, hist >>
                       ELSE /\ _write_secrets_file(s, <<"change", target_user, new_pw>>,
                                  set_password(data, target_user, hashed), ok)
                            /\ Show(s, IF ok THEN {"chg_success"} ELSE {"save_warning"})
                            /\ UNCHANGED hist
    /\ Forget(s)
    /\ Goto(s, "refresh")
    /\ Consume(s, {"change"})
    /\ UNCHANGED << cfg, now, tcache, scache, authStatus, sessUser, authUser,
                    region, items, stats, rows, out >>

\* neither form was submitted in this run
no_form_submitted(s) ==
    /\ pc[s] = "forms"
    /\ click[s] \notin {"add", "change"}
    /\ Forget(s)
    /\ Goto(s, "refresh")
    /\ UNCHANGED << cfg, file, now, tcache, scache, click, authStatus, sessUser, authUser,
                    region, items, stats, rows, ui, out, wlog, hist >>

(***************************************************************************)
(* st.cache_data(ttl=60 * 10): entries and their validity                  *)
(***************************************************************************)
NoEntry == [ok |-> FALSE, value |-> << >>, ts |-> 0]

Entry(value, ts) == [ok |-> TRUE, value |-> value, ts |-> ts]

cache_live_inclusive(e, t) == e.ok /\ t - e.ts <= TTL

\* an entry is served only while it is younger than the TTL
cache_live(e, t) == e.ok /\ t - e.ts < TTL

\* get_trending_videos.clear() / get_channel_stats.clear()
cache_clear(cache) == [k \in DOMAIN cache |-> NoEntry]

memoize_outcome(cache, key, err, value, t) == [cache EXCEPT ![key] = Entry(value, t)]

\* the cache_data wrapper stores what the function returns; a call that raises
\* returns nothing and stores nothing
memoize(cache, key, err, value, t) ==
    IF err = "" THEN [cache EXCEPT ![key] = Entry(value, t)] ELSE cache

\* the store drops an entry once its time is up (cachetools.TTLCache.expire)
expire(cache, t) == [k \in DOMAIN cache |-> IF cache_live(cache[k], t) THEN cache[k] ELSE NoEntry]

(***************************************************************************)
(* The upstream API                                                        *)
(***************************************************************************)
\* requests.get / raise_for_status / the "error" envelope
Failures == {"timeout", "connection", "http_status", "error_envelope"}

\* a trending item is modelled by its snippet.channelId (NoChannel when absent)
RECURSIVE SeqsUpTo(_, _)
SeqsUpTo(S, n) ==
    IF n = 0 THEN {<< >>}
    ELSE LET shorter == SeqsUpTo(S, n - 1)
         IN  shorter \cup { Append(q, x) : q \in { r \in shorter : Len(r) = n - 1 }, x \in S }

AllLists == SeqsUpTo(ChannelIds \cup {NoChannel}, MaxItems)

Replies(lists) ==
    { [err |-> f, items |-> << >>] : f \in Failures } \cup { [err |-> "", items |-> l] : l \in lists }

\* statistics.subscriberCount as the channels endpoint reports it
UpstreamSubs == [c \in ChannelIds |-> IF c = "c1" THEN "1200" ELSE "hidden"]

Numerals == [n \in {"1200"} |-> 1200]

\* int(sub) if sub is not None else None; None when it does not parse
sub_val(raw) == IF raw \in DOMAIN Numerals THEN <<Numerals[raw]>> ELSE << >>

(***************************************************************************)
(* Refresh button and region selectbox, lines 302-316                      *)
(***************************************************************************)
refresh_clicked(s) ==
    /\ pc[s] = "refresh"
    /\ click[s] = "refresh"
    /\ tcache' = cache_clear(tcache)
    /\ scache' = cache_clear(scache)
    /\ hist' = [hist EXCEPT !.store = [r \in Regions |-> NoEntry]]
    /\ click' = [click EXCEPT ![s] = "rerun"]      \* st.rerun()
    /\ Goto(s, "auth")
    /\ ResetRun(s)
    /\ UNCHANGED << cfg, file, now, authStatus, sessUser, region >>

select_region(s) ==
    /\ pc[s] = "refresh"
    /\ click[s] # "refresh"
    /\ IF click[s] = "region"
       THEN \E r \in Regions : region' = [region EXCEPT ![s] = r]
       ELSE UNCHANGED region
    /\ Show(s, {"refresh_button", "region_select"})
    /\ click' = [click EXCEPT ![s] = "rerun"]
    /\ Goto(s, "fetch")
    /\ UNCHANGED << cfg, file, now, tcache, scache, authStatus, sessUser, authUser,
                    secrets_data, items, stats, rows, out, wlog, hist >>

(***************************************************************************)
(* API key check and get_trending_videos, lines 32-52 and 318-332          *)
(***************************************************************************)
TrendingRequest(r) == [api |-> "videos", param |-> <<r>>]

\* what the script does with the items it got
AfterTrending(s, its) ==
    /\ items' = [items EXCEPT ![s] = its]
    /\ IF its = << >>
       THEN Show(s, {"empty_warning"}) /\ Goto(s, "idle")
       ELSE UNCHANGED ui /\ Goto(s, "stats")

on_fetch_error_swallowed(s) == UNCHANGED ui /\ Goto(s, "stats")

\* "except Exception": st.error and st.stop(), lines 326-328
on_fetch_error(s) == Show(s, {"fetch_error"}) /\ Goto(s, "idle")

fetch_trending(s, lists) ==
    /\ pc[s] = "fetch"
    /\ IF API_KEY = << >>
       THEN /\ Show(s, {"key_error"})
            /\ Goto(s, "idle")
            /\ UNCHANGED << tcache, items, out, hist >>
       ELSE LET r == region[s]
            IN  IF cache_live(tcache[r], now)
                THEN /\ AfterTrending(s, tcache[r].value)
                     /\ UNCHANGED << tcache, out, hist >>
                ELSE \E reply \in Replies(lists) :
                        /\ out' = [out EXCEPT ![s] = Append(@, TrendingRequest(r))]
                        /\ IF reply.err # ""
                           THEN /\ on_fetch_error(s)
                                /\ tcache' = memoize(tcache, r, reply.err, << >>, now)
                                /\ UNCHANGED << items, hist >>
                           ELSE /\ tcache' = memoize(tcache, r, reply.err, reply.items, now)
                                /\ hist' = [hist EXCEPT !.store[r] = Entry(reply.items, now)]
                                /\ AfterTrending(s, reply.items)
    /\ UNCHANGED << cfg, file, now, scache, click, authStatus, sessUser, authUser,
                    secrets_data, region, stats, rows, wlog >>

(***************************************************************************)
(* get_channel_stats, lines 54-88, and its call, lines 334-344             *)
(***************************************************************************)
Range(q) == { q[i] : i \in 1..Len(q) }

\* every list of channel ids the script can pass
ArgLists == SeqsUpTo(ChannelIds, MaxItems)

RECURSIVE fromkeys_keep_last(_, _)
fromkeys_keep_last(ids, acc) ==
    IF ids = << >> THEN acc
    ELSE fromkeys_keep_last(Tail(ids),
            Append(SelectSeq(acc, LAMBDA c : c # Head(ids)), Head(ids)))

\* list(dict.fromkeys(ids)): the keys in insertion order, a repeated key keeps its place
RECURSIVE dict_fromkeys(_, _)
dict_fromkeys(ids, acc) ==
    IF ids = << >> THEN acc
    ELSE dict_fromkeys(Tail(ids),
            IF Head(ids) \in Range(acc) THEN acc ELSE Append(acc, Head(ids)))

\* unique_ids = list(dict.fromkeys([cid for cid in channel_ids if cid]))
unique_ids(channel_ids) ==
    dict_fromkeys(SelectSeq(channel_ids, LAMBDA c : c # NoChannel), << >>)

\* ",".join(unique_ids)
RECURSIVE join(_)
join(ids) ==
    IF Len(ids) <= 1 THEN ids ELSE <<Head(ids), ",">> \o join(Tail(ids))

ChannelsRequest(channel_ids) == [api |-> "channels", param |-> join(unique_ids(channel_ids))]

\* the ids the channels endpoint reads out of the id parameter
split(param) == SelectSeq(param, LAMBDA t : t # ",")

\* result[cid] = {"subscriberCount": sub_val} for every item of the reply
stats_result(param) == [c \in Range(split(param)) |-> sub_val(UpstreamSubs[c])]

no_short_circuit(channel_ids) == FALSE

\* "if not channel_ids: return {}"
nothing_to_fetch(channel_ids) == channel_ids = << >>

\* channel_ids: the truthy snippet.channelId of the items, lines 335-339
channel_ids_of(its) == SelectSeq(its, LAMBDA c : c # NoChannel)

cache_key_unique(channel_ids) == unique_ids(channel_ids)

\* st.cache_data hashes the argument as passed: the list, in its order, with its repeats
cache_key(channel_ids) == channel_ids

fetch_stats(s) ==
    /\ pc[s] = "stats"
    /\ LET channel_ids == channel_ids_of(items[s])
           req == ChannelsRequest(channel_ids)
       IN  IF cache_live(scache[cache_key(channel_ids)], now)
           THEN /\ stats' = [stats EXCEPT ![s] = scache[cache_key(channel_ids)].value]
                /\ UNCHANGED << scache, out, ui >>
           ELSE IF nothing_to_fetch(channel_ids)
           THEN /\ stats' = [stats EXCEPT ![s] = << >>]
                /\ scache' = [scache EXCEPT ![cache_key(channel_ids)] = Entry(<< >>, now)]
                /\ UNCHANGED << out, ui >>
           ELSE \E err \in Failures \cup {""} :
                    /\ out' = [out EXCEPT ![s] = Append(@, req)]
                    /\ IF err # ""
                       THEN /\ stats' = [stats EXCEPT ![s] = << >>]
                            /\ Show(s, {"stats_warning"})
                            /\ scache' = memoize(scache, cache_key(channel_ids), err, << >>, now)
                       ELSE /\ stats' = [stats EXCEPT ![s] = stats_result(req.param)]
                            /\ scache' = memoize(scache, cache_key(channel_ids), err,
                                                 stats_result(req.param), now)
                            /\ UNCHANGED ui
    /\ Goto(s, "render")
    /\ UNCHANGED << cfg, file, now, tcache, click, authStatus, sessUser, authUser,
                    secrets_data, region, items, rows, wlog, hist >>

(***************************************************************************)
(* Rendering the list, lines 346-392                                       *)
(***************************************************************************)
\* f"{subs_val:,}": digits grouped in thousands
grouped(n) == IF n < 1000 THEN <<n>> ELSE <<n \div 1000, ",", n % 1000>>

subs_fmt_zero(channel_id, channel_stats_map) == grouped(0) \o <<"subscribers">>

\* subs_fmt, lines 376-380: "-" unless the map holds an int for the channel
subs_fmt(channel_id, channel_stats_map) ==
    IF channel_id # NoChannel /\ channel_id \in DOMAIN channel_stats_map
       /\ channel_stats_map[channel_id] # << >>
    THEN grouped(channel_stats_map[channel_id][1]) \o <<"subscribers">>
    ELSE <<"-">>

render(s) ==
    /\ pc[s] = "render"
    /\ rows' = [rows EXCEPT ![s] = [i \in 1..Len(items[s]) |-> subs_fmt(items[s][i], stats[s])]]
    /\ Show(s, {"list"})
    /\ Goto(s, "idle")
    /\ UNCHANGED << cfg, file, now, tcache, scache, click, authStatus, sessUser, authUser,
                    secrets_data, region, items, stats, out, wlog, hist >>

(***************************************************************************)
(* Time passes                                                             *)
(***************************************************************************)
HalfTTL == TTL \div 2

\* what a successful call stored less than TTL ago, by the clock alone
StillFresh(e, t) == IF e.ok /\ t - e.ts < TTL THEN e ELSE NoEntry

Tick ==
    /\ now < MaxTicks * HalfTTL
    /\ now' = now + HalfTTL
    /\ tcache' = expire(tcache, now')
    /\ scache' = expire(scache, now')
    /\ hist' = [hist EXCEPT !.store = [r \in Regions |-> StillFresh(hist.store[r], now')]]
    /\ UNCHANGED << cfg, file, pc, click, authStatus, sessUser, authUser,
                    secrets_data, region, items, stats, rows, ui, out, wlog >>

(***************************************************************************)
(* Initial states                                                          *)
(***************************************************************************)
InitPasswords == {<<"pw1">>, Hasher(<<"pw1">>, "saltA")}

InitDocs ==
    {EmptyDoc, [hasCreds |-> TRUE, hasUsers |-> FALSE, users |-> << >>]}
    \cup UNION { { [hasCreds |-> TRUE, hasUsers |-> TRUE,
                    users |-> [u \in us |-> UserRecord(<<"N">>, <<"E">>, pw[u])]] :
                   pw \in [us -> InitPasswords] } : us \in SUBSET Usernames }

\* credentials the hosting environment supplies when there is no local file
CloudDoc ==
    [hasCreds |-> TRUE, hasUsers |-> TRUE,
     users |-> [u \in {"alice"} |-> UserRecord(<<"N">>, <<"E">>, Hasher(<<"pw1">>, "saltA"))]]

DEFAULT_REGION == "KR"

\* a process that has just started: empty caches, no session has run the script yet
Fresh ==
    /\ now = 0
    /\ tcache = [r \in Regions |-> NoEntry]
    /\ scache = [k \in ArgLists |-> NoEntry]
    /\ pc = [s \in Sessions |-> "idle"]
    /\ click = [s \in Sessions |-> "rerun"]
    /\ authStatus = [s \in Sessions |-> "none"]
    /\ sessUser = [s \in Sessions |-> NoUser]
    /\ authUser = [s \in Sessions |-> NoUser]
    /\ secrets_data = [s \in Sessions |-> LoadFail]
    /\ region = [s \in Sessions |-> DEFAULT_REGION]
    /\ items = [s \in Sessions |-> << >>]
    /\ stats = [s \in Sessions |-> << >>]
    /\ rows = [s \in Sessions |-> << >>]
    /\ ui = [s \in Sessions |-> {}]
    /\ out = [s \in Sessions |-> << >>]
    /\ wlog = [s \in Sessions |-> << >>]
    /\ hist = [migrated |-> FALSE, loginBeforeMigrate |-> FALSE, plainCompared |-> FALSE,
               store |-> [r \in Regions |-> NoEntry],
               added |-> [u \in Usernames |-> NoPassword]]

Init ==
    /\ file \in {NoFile} \cup { toml_dump(d) : d \in InitDocs }
    /\ cfg \in [AUTH_ENABLED : {"bool:false", "bool:true"},
                ADMIN_USERS : {{}, {"alice"}},
                API_KEY : {<< >>, <<"key">>},
                cloud : {EmptyDoc, CloudDoc}]
    /\ (file # NoFile => cfg.cloud = EmptyDoc)
    /\ Fresh

(***************************************************************************)
(* The program: one browser session, every configuration and credential    *)
(* file, within one half TTL of the start; the upstream answers with one   *)
(* of two lists or fails                                                   *)
(***************************************************************************)
Main == {"s1"}

ShortLists == {<< >>, <<"c1">>}

Next ==
    \/ \E s \in Main : StartRun(s)
    \/ \E s \in Main : ensure_authenticated(s)
    \/ \E s \in Main : _migrate_plain_passwords(s)
    \/ \E s \in Main : _admin_console(s)
    \/ \E s \in Main : add_user(s)
    \/ \E s \in Main : change_password(s)
    \/ \E s \in Main : no_form_submitted(s)
    \/ \E s \in Main : refresh_clicked(s)
    \/ \E s \in Main : select_region(s)
    \/ \E s \in Main : fetch_trending(s, ShortLists)
    \/ \E s \in Main : fetch_stats(s)
    \/ \E s \in Main : render(s)

Spec == Init /\ [][Next]_vars

(***************************************************************************)
(* The caches over time: authentication off (the default), no credential   *)
(* file, an API key; the clock advances and the upstream answers with      *)
(* lists that repeat and reorder channels                                  *)
(***************************************************************************)
InitCache ==
    /\ file = NoFile
    /\ cfg = [AUTH_ENABLED |-> "bool:false", ADMIN_USERS |-> {}, API_KEY |-> <<"key">>,
              cloud |-> EmptyDoc]
    /\ Fresh

CacheLists == {<< >>, <<"c1", "c1">>, <<"c2", "c1">>, <<NoChannel>>}

NextCache ==
    \/ \E s \in Main : StartRun(s)
    \/ \E s \in Main : ensure_authenticated(s)
    \/ \E s \in Main : _migrate_plain_passwords(s)
    \/ \E s \in Main : _admin_console(s)
    \/ \E s \in Main : refresh_clicked(s)
    \/ \E s \in Main : select_region(s)
    \/ \E s \in Main : fetch_trending(s, CacheLists)
    \/ \E s \in Main : fetch_stats(s)
    \/ \E s \in Main : render(s)
    \/ Tick

SpecCache == InitCache /\ [][NextCache]_vars

(***************************************************************************)
(* The channel lists: the same configuration within one half TTL of the    *)
(* start; the upstream answers with any list of up to MaxItems items       *)
(***************************************************************************)
NextLists ==
    \/ \E s \in Main : StartRun(s)
    \/ \E s \in Main : ensure_authenticated(s)
    \/ \E s \in Main : _migrate_plain_passwords(s)
    \/ \E s \in Main : _admin_console(s)
    \/ \E s \in Main : refresh_clicked(s)
    \/ \E s \in Main : select_region(s)
    \/ \E s \in Main : fetch_trending(s, AllLists)
    \/ \E s \in Main : fetch_stats(s)
    \/ \E s \in Main : render(s)

SpecLists == InitCache /\ [][NextLists]_vars

(***************************************************************************)
(* The API key: the same configuration with every form of the key, set,    *)
(* unset, blank or padded                                                  *)
(***************************************************************************)
Keys == {<< >>, <<" ">>, <<"key">>, <<" ", "key", " ">>}

InitKey ==
    /\ file = NoFile
    /\ cfg \in [AUTH_ENABLED : {"bool:false"}, ADMIN_USERS : {{}}, API_KEY : Keys,
                cloud : {EmptyDoc}]
    /\ Fresh

SpecKey == InitKey /\ [][NextCache]_vars

(***************************************************************************)
(* Two admin sessions on one credential file.  _write_secrets_file is      *)
(* open(path, "w"), which truncates the file, then toml.dump and the       *)
(* close that flushes the text at offset 0 of the writer's own handle;     *)
(* the script runs of two sessions are threads that interleave between     *)
(* the two.  The file holds alice, the admin both sessions are logged in   *)
(* as (the login cookie); the API key is unset, so a run ends after the    *)
(* console.  The console is read while the file is not cut to length 0.    *)
(***************************************************************************)
\* the order of the sections in the file: alice is there from the start, an added
\* user's section comes after it
UserOrder == <<"alice", "kkang09">>

FieldOrder == <<"name", "email", "password">>

\* what a line of the file sets: a table header, or a key of a user's section
LineKey(l) == IF l[1] = "T" THEN l ELSE <<"K", l[2], l[3]>>

LineKeys ==
    <<<<"T", "credentials">>, <<"T", "credentials.usernames">>>>
    \o [i \in 1..(Len(UserOrder) * Len(FieldOrder)) |->
          <<"K", UserOrder[((i - 1) \div Len(FieldOrder)) + 1],
                 FieldOrder[((i - 1) % Len(FieldOrder)) + 1]>>]

\* the lines of a text in the order toml.dump writes them
Layout(text) ==
    LET present == SelectSeq(LineKeys, LAMBDA k : \E l \in text : LineKey(l) = k)
    IN  [i \in 1..Len(present) |-> CHOOSE l \in text : LineKey(l) = present[i]]

\* a handle opened at offset 0 writes its text over what the file holds and leaves
\* what lies beyond the text's end
Overwrite(old, new) ==
    { Layout(new)[i] : i \in 1..Len(Layout(new)) }
    \cup { Layout(old)[i] : i \in (Len(Layout(new)) + 1)..Len(Layout(old)) }

Truncated == {}

\* open(path, "w") of _write_secrets_file, line 162, for the data a form has built
open_w(s, call, data) ==
    /\ file' = Truncated
    /\ secrets_data' = [secrets_data EXCEPT ![s] = data]
    /\ wlog' = [wlog EXCEPT ![s] = Append(@, [op |-> call[1], user |-> call[2], pw |-> call[3],
                                              ok |-> FALSE])]
    /\ Goto(s, "wclose")
    /\ UNCHANGED << ui, click >>

\* the add-user form up to the open of the file, lines 222-238 and 159-162
add_user_open(s) ==
    /\ pc[s] = "forms"
    /\ click[s] = "add"
    /\ \E new_username \in Usernames :
          LET data == setdefault_usernames(secrets_data[s])
              hashed == Hasher(<<"pw2">>, "saltB")
          IN  IF new_username \in DOMAIN data.users
              THEN /\ Show(s, {"add_error_exists"})
                   /\ Forget(s)
                   /\ Goto(s, "refresh")
                   /\ Consume(s, {"add"})
                   /\ UNCHANGED << file, wlog >>
              ELSE open_w(s, <<"add", new_username, <<"pw2">>>>,
                          put_user(data, new_username, UserRecord(<<"Bob">>, <<"b@x.com">>, hashed)))
    /\ UNCHANGED << cfg, now, tcache, scache, authStatus, sessUser, authUser,
                    region, items, stats, rows, out, hist >>

\* the change-password form up to the open of the file, lines 255-269 and 159-162
change_password_open(s) ==
    /\ pc[s] = "forms"
    /\ click[s] = "change"
    /\ LET existing_users == DOMAIN secrets_data[s].users
       IN  \E target_user \in (IF existing_users = {} THEN {NoUser} ELSE existing_users) :
              IF target_user = NoUser
              THEN /\ Show(s, {"chg_error_fields"})
                   /\ Forget(s)
                   /\ Goto(s, "refresh")
                   /\ Consume(s, {"change"})
                   /\ UNCHANGED << file, wlog >>
              ELSE open_w(s, <<"change", target_user, <<"pw2">>>>,
                          set_password(setdefault_usernames(secrets_data[s]), target_user,
                                       Hasher(<<"pw2">>, "saltB")))
    /\ UNCHANGED << cfg, now, tcache, scache, authStatus, sessUser, authUser,
                    region, items, stats, rows, out, hist >>

\* toml.dump and the close of the file, lines 163-164, then the success message
write_close(s) ==
    /\ pc[s] = "wclose"
    /\ file' = Overwrite(file, toml_dump(secrets_data[s]))
    /\ hist' = [hist EXCEPT !.lastWrite = toml_dump(secrets_data[s])]
    /\ wlog' = [wlog EXCEPT ![s][Len(wlog[s])].ok = TRUE]
    /\ Show(s, IF Last(wlog[s]).op = "add" THEN {"add_success"} ELSE {"chg_success"})
    /\ Forget(s)
    /\ Goto(s, "refresh")
    /\ Consume(s, {"add", "change"})
    /\ UNCHANGED << cfg, now, tcache, scache, authStatus, sessUser, authUser,
                    region, items, stats, rows, out >>

InitRace ==
    /\ file = toml_dump(CloudDoc)
    /\ cfg = [AUTH_ENABLED |-> "bool:true", ADMIN_USERS |-> {"alice"}, API_KEY |-> << >>,
              cloud |-> EmptyDoc]
    /\ now = 0
    /\ tcache = [r \in Regions |-> NoEntry]
    /\ scache = [k \in ArgLists |-> NoEntry]
    /\ pc = [s \in Sessions |-> "idle"]
    /\ click = [s \in Sessions |-> "rerun"]
    /\ authStatus = [s \in Sessions |-> "true"]
    /\ sessUser = [s \in Sessions |-> "alice"]
    /\ authUser = [s \in Sessions |-> NoUser]
    /\ secrets_data = [s \in Sessions |-> LoadFail]
    /\ region = [s \in Sessions |-> DEFAULT_REGION]
    /\ items = [s \in Sessions |-> << >>]
    /\ stats = [s \in Sessions |-> << >>]
    /\ rows = [s \in Sessions |-> << >>]
    /\ ui = [s \in Sessions |-> {}]
    /\ out = [s \in Sessions |-> << >>]
    /\ wlog = [s \in Sessions |-> << >>]
    /\ hist = [migrated |-> FALSE, loginBeforeMigrate |-> FALSE, plainCompared |-> FALSE,
               store |-> [r \in Regions |-> NoEntry],
               added |-> [u \in Usernames |-> NoPassword],
               lastWrite |-> NoFile]

NextRace ==
    \/ \E s \in Sessions : StartRun(s)
    \/ \E s \in Sessions : ensure_authenticated(s)
    \/ \E s \in Sessions : _migrate_plain_passwords(s)
    \/ \E s \in Sessions : file # Truncated /\ _admin_console(s)
    \/ \E s \in Sessions : add_user_open(s)
    \/ \E s \in Sessions : change_password_open(s)
    \/ \E s \in Sessions : write_close(s)
    \/ \E s \in Sessions : no_form_submitted(s)
    \/ \E s \in Sessions : refresh_clicked(s)
    \/ \E s \in Sessions : select_region(s)
    \/ \E s \in Sessions : fetch_trending(s, ShortLists)

SpecRace == InitRace /\ [][NextRace]_vars

(***************************************************************************)
(* Properties                                                              *)
(***************************************************************************)
\* the user records a load of the credential file yields
Persisted(f) == toml_load(f).users

\* the value is what hashing some plaintext gives
InHashedForm(v) == \E p \in Plaintexts, salt \in Salts : v = Hasher(p, salt)

AllInHashedForm(f) == \A u \in DOMAIN Persisted(f) : InHashedForm(Persisted(f)[u].password)

Count(q, x) == Cardinality({ i \in 1..Len(q) : q[i] = x })

FirstAt(q, x) == CHOOSE i \in 1..Len(q) : q[i] = x /\ \A j \in 1..(i - 1) : q[j] # x

\* C1: a call of get_trending_videos(R) made while a value stored for R is less than
\* TTL old, with no refresh since, makes no outbound request and returns the stored
\* value; a call made when no such value exists (never stored, TTL expired, or the
\* refresh button cleared it) makes exactly one new outbound request.
C1_TrendingCacheWindow ==
    [][\A s \in Main :
        (pc[s] = "fetch" /\ pc'[s] # "fetch") =>
            IF hist.store[region[s]].ok
            THEN out'[s] = out[s] /\ items'[s] = hist.store[region[s]].value
            ELSE out'[s] = Append(out[s], TrendingRequest(region[s]))]_vars

\* a run got its list from an entry stored half a TTL earlier, without a request
C1_ServedFromCache ==
    /\ pc["s1"] = "stats"
    /\ out["s1"] = << >>
    /\ hist.store[region["s1"]].ok
    /\ now - hist.store[region["s1"]].ts = HalfTTL

\* C2: the admin check passes exactly for the usernames of the ADMIN_USERS allow-list;
\* for any other username (or none) the admin console is not rendered and no add-user
\* or change-password operation is reachable.
C2_AdminIsAllowListOnly ==
    \A s \in Main :
        /\ pc[s] \notin {"migrate", "admin"} =>
              (("admin_console" \in ui[s]) <=> (authUser[s] \in cfg.ADMIN_USERS))
        /\ authUser[s] \notin cfg.ADMIN_USERS =>
              /\ pc[s] # "forms"
              /\ \A i \in 1..Len(wlog[s]) : wlog[s][i].op \notin {"add", "change"}

\* C3: the plaintext-to-hash migration runs before the first login check: no login
\* check is made on a store that still awaits its migration, and no submitted password
\* is compared against a stored password that is not a hash.
C3_MigrationBeforeFirstLogin ==
    /\ ~hist.loginBeforeMigrate
    /\ ~hist.plainCompared

\* C4: while the wrong-credentials error is shown the session is unauthenticated, the
\* run has halted at the login form with nothing else rendered or fetched, and no step
\* of that run wrote or changed the credential file.
C4_WrongCredentialsChangeNothing ==
    [][\A s \in Main :
        "auth_error" \in ui'[s] =>
            /\ file' = file
            /\ wlog'[s] = << >>
            /\ pc'[s] = "idle"
            /\ authStatus'[s] = "false"
            /\ authUser'[s] = NoUser
            /\ ui'[s] = {"login_form", "auth_error"}
            /\ out'[s] = << >>]_vars

\* the error is shown while the file still holds a password the migration would rewrite
C4_WrongCredentialsShown ==
    /\ "auth_error" \in ui["s1"]
    /\ file # NoFile
    /\ NeedsHash(toml_load(file)) # {}

\* C5: with authentication enabled and the credentials table absent or empty,
\* ensure_authenticated ends the run showing the configuration error alone: no login
\* form, no admin console, no request, no write.
C5_MissingCredentialsHalt ==
    [][\A s \in Main :
        ( /\ cfg.AUTH_ENABLED = "bool:true"
          /\ (~st_secrets_credentials.hasCreds \/ ~st_secrets_credentials.hasUsers)
          /\ pc[s] = "auth" /\ pc'[s] # "auth" ) =>
            /\ pc'[s] = "idle"
            /\ ui'[s] = {"config_error"}
            /\ out'[s] = << >>
            /\ wlog'[s] = << >>
            /\ authUser'[s] = NoUser
            /\ file' = file]_vars

C5_ConfigErrorShown ==
    /\ ui["s1"] = {"config_error"}
    /\ pc["s1"] = "idle"
    /\ file # NoFile

\* C6: a call of get_channel_stats with a non-empty list that is not in the cache makes
\* one outbound request, whose id parameter is the comma-joined list of the ids of the
\* input, each exactly once, in the order of their first appearance.
C6_UniqueIdsInFirstSeenOrder ==
    [][\A s \in Main :
        ( /\ pc[s] = "stats" /\ pc'[s] # "stats"
          /\ channel_ids_of(items[s]) # << >>
          /\ ~scache[channel_ids_of(items[s])].ok ) =>
            LET input == channel_ids_of(items[s])
                param == Last(out'[s]).param
                ids == SelectSeq(param, LAMBDA t : t # ",")
            IN  /\ Len(out'[s]) = Len(out[s]) + 1
                /\ Last(out'[s]).api = "channels"
                /\ Len(param) = 2 * Len(ids) - 1
                /\ \A i \in 1..Len(param) : (param[i] = ",") <=> (i % 2 = 0)
                /\ Range(ids) = Range(input)
                /\ \A c \in Range(input) : Count(ids, c) = 1
                /\ \A i, j \in 1..Len(ids) :
                      i < j => FirstAt(input, ids[i]) < FirstAt(input, ids[j])]_vars

\* a request went out for a list in which a channel comes back after another one
C6_RequestForRepeatedIds ==
    /\ pc["s1"] = "render"
    /\ items["s1"] = <<"c1", "c2", "c1">>
    /\ out["s1"] # << >>
    /\ Last(out["s1"]).api = "channels"

\* C7: a call of get_channel_stats with an empty list returns an empty mapping and
\* makes no outbound request, whether or not the cache holds an entry for it.
C7_EmptyListNoRequest ==
    [][\A s \in Main :
        ( /\ pc[s] = "stats" /\ pc'[s] # "stats"
          /\ channel_ids_of(items[s]) = << >> ) =>
            /\ stats'[s] = << >>
            /\ out'[s] = out[s]]_vars

\* the empty list was passed again in a run that found both caches warm
C7_EmptyListCalled ==
    /\ pc["s1"] = "render"
    /\ items["s1"] # << >>
    /\ channel_ids_of(items["s1"]) = << >>
    /\ scache[<< >>].ok
    /\ out["s1"] = << >>
    /\ stats["s1"] = << >>

\* C8: a migration run on a file whose passwords are all in hashed form calls no write
\* and leaves the file as it is; a migration run calls the write at most once, and
\* after one that saved (or had nothing to save) every password is in hashed form, so
\* the next migration run writes nothing.
C8_MigrationIdempotent ==
    [][\A s \in Main :
        (pc[s] = "migrate" /\ pc'[s] # "migrate") =>
            /\ AllInHashedForm(file) => (file' = file /\ wlog'[s] = wlog[s])
            /\ Len(wlog'[s]) <= Len(wlog[s]) + 1
            /\ (wlog'[s] = wlog[s] \/ Last(wlog'[s]).ok) => AllInHashedForm(file')]_vars

\* a migration run has passed over a file of hashed passwords without writing
C8_MigrationSkipped ==
    /\ pc["s1"] = "admin"
    /\ wlog["s1"] = << >>
    /\ DOMAIN Persisted(file) = Usernames
    /\ AllInHashedForm(file)

\* C9: a submitted add-user form is either rejected with an error, leaving the file
\* unchanged and unwritten (so it is for a username that exists), or it is for a new
\* username and calls the write once; when that write saves, a load yields the old
\* records unchanged plus one for the new username whose password verifies against
\* the given plaintext and differs from it.
C9_AddUser ==
    [][\A s \in Main :
        (pc[s] = "forms" /\ click[s] = "add" /\ pc'[s] # "forms") =>
            LET before == Persisted(file)
                after == Persisted(file')
            IN  \/ /\ ui'[s] \cap {"add_error_fields", "add_error_exists"} # {}
                   /\ "add_success" \notin ui'[s]
                   /\ file' = file
                   /\ wlog'[s] = wlog[s]
                \/ /\ ui'[s] \cap {"add_error_fields", "add_error_exists"} = {}
                   /\ Len(wlog'[s]) = Len(wlog[s]) + 1
                   /\ Last(wlog'[s]).op = "add"
                   /\ Last(wlog'[s]).user \notin DOMAIN before
                   /\ IF Last(wlog'[s]).ok
                      THEN /\ "add_success" \in ui'[s]
                           /\ DOMAIN after = DOMAIN before \cup {Last(wlog'[s]).user}
                           /\ \A u \in DOMAIN before : after[u] = before[u]
                           /\ checkpw(Last(wlog'[s]).pw, after[Last(wlog'[s]).user].password)
                           /\ after[Last(wlog'[s]).user].password # Last(wlog'[s]).pw
                      ELSE /\ "add_success" \notin ui'[s]
                           /\ file' = file]_vars

\* a user was added to a file that already held another one
C9_UserAdded ==
    /\ "add_success" \in ui["s1"]
    /\ DOMAIN Persisted(file) = Usernames

\* C10: once a change-password call for user u with plaintext p2 has saved, the
\* persisted hash of u verifies against p2 and against no other plaintext, the one u
\* was added with included; a change-password call is made only for a user of the
\* store, and a form rejected for lack of one writes nothing.
C10_ChangePassword ==
    \A s \in Main :
        /\ \A i \in 1..Len(wlog[s]) :
              wlog[s][i].op = "change" =>
                 /\ wlog[s][i].user \in DOMAIN Persisted(file)
                 /\ wlog[s][i].ok =>
                       LET stored == Persisted(file)[wlog[s][i].user].password
                       IN  /\ checkpw(wlog[s][i].pw, stored)
                           /\ \A p \in Plaintexts \ {wlog[s][i].pw} : ~checkpw(p, stored)
                           /\ hist.added[wlog[s][i].user] # wlog[s][i].pw =>
                                 ~checkpw(hist.added[wlog[s][i].user], stored)
        /\ ui[s] \cap {"chg_error_fields", "chg_error_mismatch", "chg_error_nouser"} # {} =>
              \A i \in 1..Len(wlog[s]) : wlog[s][i].op # "change"

\* a user added with pw1 has had the password changed to pw2
C10_ChangedAfterAdd ==
    \E u \in Usernames :
        /\ hist.added[u] = <<"pw1">>
        /\ "chg_success" \in ui["s1"]
        /\ Last(wlog["s1"]) = [op |-> "change", user |-> u, pw |-> <<"pw2">>, ok |-> TRUE]

\* C11: in a run with no API key (unset, empty or blank) the key check ends the run
\* with the key error shown, and no request, trending or channels, is ever made.
C11_NoKeyNoRequest ==
    [][\A s \in Main :
        (\A i \in 1..Len(cfg.API_KEY) : cfg.API_KEY[i] = " ") =>
            /\ out'[s] = << >>
            /\ tcache' = tcache /\ scache' = scache
            /\ pc'[s] \notin {"stats", "render"}
            /\ (pc[s] = "fetch" /\ pc'[s] # "fetch") =>
                  /\ "key_error" \in ui'[s]
                  /\ "list" \notin ui'[s]
                  /\ pc'[s] = "idle"]_vars

\* the key error is shown for a key that holds a blank only
C11_KeyErrorShown ==
    /\ cfg.API_KEY = <<" ">>
    /\ "key_error" \in ui["s1"]
    /\ pc["s1"] = "idle"

\* C12: a channels request that fails does not end the run: the warning is shown, the
\* stats map is empty, and the run goes on to render one row per item of the trending
\* list, each with "-" for the subscriber count.
C12_StatsFailureDegrades ==
    [][\A s \in Main :
        /\ ( /\ pc[s] = "stats" /\ pc'[s] # "stats"
              /\ Len(out'[s]) > Len(out[s])
              /\ ~scache'[channel_ids_of(items[s])].ok ) =>
                /\ "stats_warning" \in ui'[s]
                /\ stats'[s] = << >>
                /\ items'[s] = items[s]
                /\ pc'[s] = "render"
        /\ ( /\ pc[s] = "render" /\ pc'[s] # "render"
              /\ "stats_warning" \in ui[s] ) =>
                /\ {"stats_warning", "list"} \subseteq ui'[s]
                /\ Len(rows'[s]) = Len(items[s])
                /\ \A i \in 1..Len(items[s]) : rows'[s][i] = <<"-">>]_vars

\* a list of three items was rendered after the channels request had failed
C12_ListRenderedAfterFailure ==
    /\ pc["s1"] = "idle"
    /\ {"stats_warning", "list"} \subseteq ui["s1"]
    /\ items["s1"] = <<"c1", NoChannel, "c2">>
    /\ rows["s1"] = <<<<"-">>, <<"-">>, <<"-">>>>

\* C13: a trending request that fails is the only request of its run: the error is
\* shown and the run ends there, with no second trending request, no channels request
\* and no list.
C13_FailedFetchNotRetried ==
    [][\A s \in Main :
        ( /\ pc[s] = "fetch" /\ pc'[s] # "fetch"
          /\ Len(out'[s]) > Len(out[s])
          /\ ~tcache'[region[s]].ok ) =>
            /\ out'[s] = <<TrendingRequest(region[s])>>
            /\ "fetch_error" \in ui'[s]
            /\ "list" \notin ui'[s]
            /\ pc'[s] = "idle"
            /\ items'[s] = << >>
            /\ rows'[s] = << >>]_vars

\* a run has ended on the fetch error after its one request
C13_FetchErrorShown ==
    /\ pc["s1"] = "idle"
    /\ "fetch_error" \in ui["s1"]
    /\ out["s1"] = <<TrendingRequest("US")>>
    /\ now > 0

C15_LastWriteWins ==
    ( /\ \A s \in Sessions : pc[s] # "wclose"
      /\ hist.lastWrite # NoFile ) =>
        file = hist.lastWrite

\* C16: neither the load nor the save ends the run. With no readable file the migration
\* does nothing and the console shows its read-only caption, without forms, and the run
\* goes on; a save that fails leaves the file as it was, shows the warning and no
\* success message, and the run goes on to the rest of the page.
C16_LoadAndSaveNeverRaise ==
    [][\A s \in Main :
        /\ (file = NoFile /\ pc[s] = "migrate" /\ pc'[s] # "migrate") =>
              /\ pc'[s] = "admin"
              /\ file' = file /\ wlog'[s] = wlog[s] /\ ui'[s] = ui[s]
        /\ (file = NoFile /\ pc[s] = "admin" /\ pc'[s] # "admin") =>
              /\ pc'[s] = "refresh"
              /\ file' = file
              /\ "admin_console" \in ui'[s] => "readonly_caption" \in ui'[s]
              /\ ui'[s] \cap {"add_user_form", "change_pw_form"} = {}
        /\ (Len(wlog'[s]) > Len(wlog[s]) /\ ~Last(wlog'[s]).ok) =>
              /\ file' = file
              /\ "save_warning" \in ui'[s]
              /\ ui'[s] \cap {"add_success", "chg_success"} = {}
              /\ pc[s] = "migrate" => pc'[s] = "admin"
              /\ pc[s] = "forms" => pc'[s] = "refresh"]_vars

\* an add-user save has failed and the run went on to render the list
C16_ListAfterFailedSave ==
    /\ pc["s1"] = "idle"
    /\ {"save_warning", "list"} \subseteq ui["s1"]
    /\ "add_success" \notin ui["s1"]
    /\ wlog["s1"] # << >>
    /\ Last(wlog["s1"]).op = "add"
    /\ ~Last(wlog["s1"]).ok

\* C17: a call of get_trending_videos or get_channel_stats whose request fails stores
\* nothing: the cache is as it was, with no entry for the key, and the next call with
\* that key, finding no entry, makes a new request.
C17_FailureNotCached ==
    [][\A s \in Main :
        /\ ( /\ pc[s] = "fetch" /\ pc'[s] # "fetch"
              /\ "fetch_error" \in ui'[s] ) =>
                /\ Len(out'[s]) = Len(out[s]) + 1
                /\ tcache' = tcache
                /\ ~tcache'[region[s]].ok
        /\ ( /\ pc[s] = "stats" /\ pc'[s] # "stats"
              /\ "stats_warning" \in ui'[s] ) =>
                /\ Len(out'[s]) = Len(out[s]) + 1
                /\ scache' = scache
                /\ ~scache'[channel_ids_of(items[s])].ok
        /\ ( /\ pc[s] = "fetch" /\ pc'[s] # "fetch"
              /\ ~tcache[region[s]].ok ) =>
                out'[s] = Append(out[s], TrendingRequest(region[s]))
        /\ ( /\ pc[s] = "stats" /\ pc'[s] # "stats"
              /\ channel_ids_of(items[s]) # << >>
              /\ ~scache[channel_ids_of(items[s])].ok ) =>
                out'[s] = Append(out[s], ChannelsRequest(channel_ids_of(items[s])))]_vars

\* the channels request failed in a run and no entry is there for its list
C17_NothingStoredOnFailure ==
    /\ pc["s1"] = "idle"
    /\ "stats_warning" \in ui["s1"]
    /\ items["s1"] = <<"c2", "c1">>
    /\ ~scache[<<"c2", "c1">>].ok
    /\ tcache[region["s1"]].ok
    /\ now > 0

\* C18: a run that called the write for an add-user or a change-password has
\* authentication enabled, a logged-in session and a username that passes the admin
\* check of the code (a member of ADMIN_USERS, or the hard-coded name of line 202); a
\* run with authentication disabled, or stopped at the login form with the login
\* unsubmitted or failed, called no such write.
C18_WritesOnlyByAdmins ==
    \A s \in Main :
        /\ (\E i \in 1..Len(wlog[s]) : wlog[s][i].op \in {"add", "change"}) =>
              /\ cfg.AUTH_ENABLED = "bool:true"
              /\ authStatus[s] = "true"
              /\ authUser[s] # NoUser
              /\ authUser[s] = sessUser[s]
              /\ authUser[s] \in cfg.ADMIN_USERS \cup {"kkang09"}
              /\ "admin_console" \in ui[s]
        /\ ( \/ cfg.AUTH_ENABLED = "bool:false"
             \/ authUser[s] = NoUser
             \/ ui[s] \cap {"login_prompt", "auth_error", "config_error"} # {} ) =>
              /\ "admin_console" \notin ui[s]
              /\ pc[s] # "forms"
              /\ \A i \in 1..Len(wlog[s]) : wlog[s][i].op \notin {"add", "change"}

\* alice, of the allow-list, has changed a password
C18_AdminWrote ==
    /\ authUser["s1"] = "alice"
    /\ cfg.ADMIN_USERS = {"alice"}
    /\ wlog["s1"] # << >>
    /\ Last(wlog["s1"]).op = "change"
    /\ Last(wlog["s1"]).ok

====
